---- MODULE Spec2Model ----
(***************************************************************************)
(* Model of ArtistGrid/monitor (src/main.py): the monitor-and-archive loop *)
(* with its cooldown gate, the notifier, the archiver and the bounded      *)
(* in-memory log.                                                          *)
(*                                                                         *)
(* Time is counted in seconds since the process started.  It advances only *)
(* where the code blocks: time.sleep(CHECK_INTERVAL), time.sleep(5), and a *)
(* request that ends in requests.exceptions.Timeout (its timeout elapsed). *)
(***************************************************************************)
EXTENDS Integers, Sequences, FiniteSets, TLC

(***************************************************************************)
(* Bounds of the model (not program constants).                            *)
(***************************************************************************)
\* the clock stops the polling once another sleep would pass MaxTime
MaxTime == 4200
\* the environment produces at most MaxEvents content changes and
\* non-nominal HTTP outcomes in one run
MaxEvents == 4
\* number of log() calls made in the log-buffer specification
MaxLogCalls == 1003
\* number of show_log requests served in the log-viewer specification
MaxViews == 1
\* longest message handed to send_discord_message in the payload specification
MaxMessageLen == 1902

(***************************************************************************)
(* Program constants.                                                      *)
(***************************************************************************)
CHECK_INTERVAL == 600
COOLDOWN_SECONDS == 3600
MAX_LOG_ENTRIES == 1000
FETCH_TIMEOUT == 10
SAVE_TIMEOUT == 60
SNAPSHOT_TIMEOUT == 30
SNAPSHOT_WAIT == 5
MAX_AGE_SECONDS == 3600
MAX_CONTENT_UNITS == 1900
\* requests.post(DISCORD_WEBHOOK_URL, json=payload) passes no timeout
NO_TIMEOUT == 0
\* cooldown_until = None
None == -1

URL_TO_MONITOR == "https://sheets.artistgrid.cx/artists.html"

\* the built-in list used when ARCHIVE_URLS is not set
URLS_TO_ARCHIVE ==
    << "https://sheets.artistgrid.cx/artists.html",
       "https://sheets.artistgrid.cx/artists.xlsx",
       "https://docs.google.com/spreadsheets/d/1S6WwM05O277npQbaiNk-jZlXK3TdooSyWtqaWUvAI78/htmlview" >>

\* the page bodies the monitored URL serves; it serves InitialBody at start-up
Bodies == {"body A", "body B"}
InitialBody == "body A"

VARIABLES
    pc,             \* position of the monitor thread
    now,            \* datetime.now(timezone.utc), in seconds
    log_entries,    \* the global list log_entries
    cooldown_until, \* the global cooldown_until (None or a time)
    last_hash,      \* local last_hash of monitor_and_archive_loop
    current_hash,   \* local current_hash of monitor_and_archive_loop
    idx,            \* position of the for loop of archive_all_urls
    webhook_set,    \* whether DISCORD_WEBHOOK_URL is set
    calls,          \* history: calls made in the current iteration
    appended,       \* history: number of log() calls so far
    entered,        \* history: the times at which enter_cooldown ran
    events,         \* history: environment events used up (bound)
    apc,            \* positions of concurrent archive_url invocations
    lpc,            \* position inside log(): "idle", or "appended" before the trim
    views           \* history: number of show_log requests served

vars == <<pc, now, log_entries, cooldown_until, last_hash, current_hash, idx,
          webhook_set, calls, appended, entered, events, apc, lpc, views>>

\* the threads that may run archive_url at the same time, were
\* archive_all_urls parallelised; thread t archives URLS_TO_ARCHIVE[t]
Threads == {1, 2}

\* what the monitor thread running alone leaves untouched
other == <<apc, lpc, views>>

Last(s) == s[Len(s)]

(***************************************************************************)
(* Logging: log(msg) builds "[timestamp] msg" with a minute-resolution     *)
(* timestamp, appends it, and deletes the oldest entry once the list holds *)
(* more than 1000.                                                         *)
(***************************************************************************)
Timestamp(t) == t \div 60

Entry(t, msg) == [ts |-> Timestamp(t), msg |-> msg]

\* a trim that deletes the newest entry instead of the oldest
LogDropsNewest(entries, e) ==
    LET grown == Append(entries, e)
    IN  IF Len(grown) > MAX_LOG_ENTRIES THEN SubSeq(grown, 1, Len(grown) - 1) ELSE grown

Log(entries, e) ==
    LET grown == Append(entries, e)
    IN  IF Len(grown) > MAX_LOG_ENTRIES THEN Tail(grown) ELSE grown

RECURSIVE LogAll(_, _)
LogAll(entries, es) ==
    IF es = <<>> THEN entries
    ELSE LogAll(Log(entries, Head(es)), Tail(es))

(***************************************************************************)
(* Cooldown gate.                                                          *)
(***************************************************************************)
\* archive_url without the check of line 108
in_cooldown_never(until, t) == FALSE

\* the comparison of line 54 turned around
in_cooldown_flipped(until, t) == until # None /\ t > until

\* the comparison of line 54 made inclusive
in_cooldown_inclusive(until, t) == until # None /\ t <= until

in_cooldown(until, t) == until # None /\ t < until

\* line 59 without the timedelta
enter_cooldown_no_delta(t) == t

enter_cooldown(t) == t + COOLDOWN_SECONDS

\* the "%H:%M:%S" rendering of cooldown_until in the log message
ClockTime(t) == t % 86400

CooldownEntry(t) == Entry(t, <<"Entering cooldown until", ClockTime(enter_cooldown(t))>>)

hash_content(content) == <<"sha256", content>>

(***************************************************************************)
(* Outbound calls.  A response of the archive-save GET is either an        *)
(* exception of requests or a status code.                                 *)
(***************************************************************************)
SaveStatuses == {200, 404, 429, 503}

SaveResponses ==
    [exc : {"none"}, status_code : SaveStatuses]
        \cup [exc : {"Timeout", "RequestException"}, status_code : {0}]

\* the answers of https://archive.org/wayback/available: a failed query, no
\* "closest" snapshot, or a closest snapshot of some age
SnapshotAges == {MAX_AGE_SECONDS, MAX_AGE_SECONDS + 1}

SnapshotAnswers ==
    [kind : {"error", "absent"}, age : {0}]
        \cup [kind : {"closest"}, age : SnapshotAges]

\* a call made in the current iteration: an outbound HTTP call with its
\* timeout= argument and its outcome, or the invocation of a function
Call(op, arg, timeout, result, status_code) ==
    [op |-> op, arg |-> arg, timeout |-> timeout, result |-> result,
     status_code |-> status_code]

HttpOps == {"GET page", "POST webhook", "GET save", "GET snapshot"}

\* an outcome other than the nominal one uses up one environment event
Spend(n) == events + n <= MaxEvents /\ events' = events + n

(***************************************************************************)
(* monitor_and_archive_loop, lines 148-154: the initial fetch.             *)
(***************************************************************************)
MonitoringEntry == Entry(now, <<"Monitoring HTML content at", URL_TO_MONITOR>>)

\* a failed initial fetch that falls through into the loop
InitialFetchFailedContinues ==
    /\ pc = "Initializing"
    /\ calls' = <<Call("GET page", <<URL_TO_MONITOR>>, FETCH_TIMEOUT, "error", 0)>>
    /\ log_entries' = LogAll(log_entries,
            << MonitoringEntry,
               Entry(now, <<"Error fetching HTML">>),
               Entry(now, <<"Failed to get initial HTML content. Exiting monitor.">>) >>)
    /\ appended' = appended + 3
    /\ pc' = "Running"
    /\ UNCHANGED <<other, now, cooldown_until, last_hash, current_hash, idx,
                   webhook_set, entered, events>>

InitialFetchFailed ==
    /\ pc = "Initializing"
    /\ calls' = <<Call("GET page", <<URL_TO_MONITOR>>, FETCH_TIMEOUT, "error", 0)>>
    /\ log_entries' = LogAll(log_entries,
            << MonitoringEntry,
               Entry(now, <<"Error fetching HTML">>),
               Entry(now, <<"Failed to get initial HTML content. Exiting monitor.">>) >>)
    /\ appended' = appended + 3
    /\ pc' = "Terminated"
    /\ UNCHANGED <<other, now, cooldown_until, last_hash, current_hash, idx,
                   webhook_set, entered, events>>

InitialFetchOk ==
    /\ pc = "Initializing"
    /\ \E body \in {InitialBody} : last_hash' = hash_content(body)
    /\ calls' = <<Call("GET page", <<URL_TO_MONITOR>>, FETCH_TIMEOUT, "answered", 200)>>
    /\ log_entries' = Log(log_entries, MonitoringEntry)
    /\ appended' = appended + 1
    /\ pc' = "Running"
    /\ UNCHANGED <<other, now, cooldown_until, current_hash, idx, webhook_set,
                   entered, events>>

(***************************************************************************)
(* One pass of the while loop, lines 157-165: sleep, fetch, compare.       *)
(***************************************************************************)
\* a comparison of line 164 that always reports a change
ChangedAlways(current, last) == TRUE

Changed(current, last) == current # last

\* a failed fetch in the loop treated like the initial one
PollFailedFatal ==
    /\ pc = "Running"
    /\ now + CHECK_INTERVAL <= MaxTime
    /\ Spend(1)
    /\ now' = now + CHECK_INTERVAL
    /\ calls' = <<Call("GET page", <<URL_TO_MONITOR>>, FETCH_TIMEOUT, "error", 0)>>
    /\ log_entries' = LogAll(log_entries,
            << Entry(now', <<"Error fetching HTML">>),
               Entry(now', <<"Failed to fetch. Skipping.">>) >>)
    /\ appended' = appended + 2
    /\ pc' = "Terminated"
    /\ UNCHANGED <<other, cooldown_until, last_hash, current_hash, idx, webhook_set,
                   entered>>

PollFailed ==
    /\ pc = "Running"
    /\ now + CHECK_INTERVAL <= MaxTime
    /\ Spend(1)
    /\ now' = now + CHECK_INTERVAL
    /\ calls' = <<Call("GET page", <<URL_TO_MONITOR>>, FETCH_TIMEOUT, "error", 0)>>
    /\ log_entries' = LogAll(log_entries,
            << Entry(now', <<"Error fetching HTML">>),
               Entry(now', <<"Failed to fetch. Skipping.">>) >>)
    /\ appended' = appended + 2
    /\ pc' = "Running"
    /\ UNCHANGED <<other, cooldown_until, last_hash, current_hash, idx, webhook_set,
                   entered>>

PollUnchanged ==
    /\ pc = "Running"
    /\ now + CHECK_INTERVAL <= MaxTime
    /\ now' = now + CHECK_INTERVAL
    /\ \E body \in Bodies :
          /\ ~Changed(hash_content(body), last_hash)
          /\ current_hash' = hash_content(body)
    /\ calls' = <<Call("GET page", <<URL_TO_MONITOR>>, FETCH_TIMEOUT, "answered", 200)>>
    /\ pc' = "Running"
    /\ UNCHANGED <<other, log_entries, appended, cooldown_until, last_hash, idx,
                   webhook_set, entered, events>>

PollChanged ==
    /\ pc = "Running"
    /\ now + CHECK_INTERVAL <= MaxTime
    /\ Spend(1)
    /\ now' = now + CHECK_INTERVAL
    /\ \E body \in Bodies :
          /\ Changed(hash_content(body), last_hash)
          /\ current_hash' = hash_content(body)
    /\ calls' = <<Call("GET page", <<URL_TO_MONITOR>>, FETCH_TIMEOUT, "answered", 200)>>
    /\ log_entries' = Log(log_entries, Entry(now', <<"HTML content changed!">>))
    /\ appended' = appended + 1
    /\ pc' = "Notify"
    /\ UNCHANGED <<other, cooldown_until, last_hash, idx, webhook_set, entered>>

(***************************************************************************)
(* send_discord_message, lines 77-87.  The POST passes no timeout: when    *)
(* the webhook host never answers, requests.post never returns.            *)
(***************************************************************************)
ChangeMessage == <<"Content changed! <", URL_TO_MONITOR, ">">>

\* message[:1900] taken without the slice
TruncatedNot(message) == message

\* line 82: message[:1900], the first min(len(message), 1900) units
Truncated(message) ==
    SubSeq(message, 1,
           IF Len(message) < MAX_CONTENT_UNITS THEN Len(message) ELSE MAX_CONTENT_UNITS)

NotifyCallOf(message) == Call("send_discord_message", message, NO_TIMEOUT, "called", 0)

PostCallOf(message, result) ==
    Call("POST webhook", Truncated(message), NO_TIMEOUT, result, 0)

NotifyCall == NotifyCallOf(ChangeMessage)

PostCall(result) == PostCallOf(ChangeMessage, result)

\* a warning that is followed by a POST all the same
NotifyUnsetPosts ==
    /\ pc = "Notify"
    /\ ~webhook_set
    /\ calls' = calls \o <<NotifyCall, PostCall("answered")>>
    /\ log_entries' = Log(log_entries, Entry(now, <<"DISCORD_WEBHOOK_URL not set.">>))
    /\ appended' = appended + 1
    /\ pc' = "ArchiveAll"
    /\ UNCHANGED <<other, now, cooldown_until, last_hash, current_hash, idx,
                   webhook_set, entered, events>>

NotifyUnset ==
    /\ pc = "Notify"
    /\ ~webhook_set
    /\ calls' = calls \o <<NotifyCall>>
    /\ log_entries' = Log(log_entries, Entry(now, <<"DISCORD_WEBHOOK_URL not set.">>))
    /\ appended' = appended + 1
    /\ pc' = "ArchiveAll"
    /\ UNCHANGED <<other, now, cooldown_until, last_hash, current_hash, idx,
                   webhook_set, entered, events>>

\* lines 81-85: the POST is answered with a success status
SendDelivered(message) ==
    /\ pc = "Notify"
    /\ webhook_set
    /\ calls' = calls \o <<NotifyCallOf(message), PostCallOf(message, "answered")>>
    /\ log_entries' = Log(log_entries, Entry(now, <<"Discord message sent.">>))
    /\ appended' = appended + 1
    /\ pc' = "ArchiveAll"
    /\ UNCHANGED <<other, now, cooldown_until, last_hash, current_hash, idx,
                   webhook_set, entered, events>>

\* lines 81-87: the POST raises, or raise_for_status does
SendFailed(message) ==
    /\ pc = "Notify"
    /\ webhook_set
    /\ Spend(1)
    /\ calls' = calls \o <<NotifyCallOf(message), PostCallOf(message, "error")>>
    /\ log_entries' = Log(log_entries, Entry(now, <<"Error sending message">>))
    /\ appended' = appended + 1
    /\ pc' = "ArchiveAll"
    /\ UNCHANGED <<other, now, cooldown_until, last_hash, current_hash, idx,
                   webhook_set, entered>>

NotifySent == SendDelivered(ChangeMessage)

\* a delivery failure that leaves send_discord_message as an exception and
\* ends the thread
NotifyFailedRaises ==
    /\ pc = "Notify"
    /\ webhook_set
    /\ Spend(1)
    /\ calls' = calls \o <<NotifyCall, PostCall("error")>>
    /\ pc' = "Terminated"
    /\ UNCHANGED <<other, now, log_entries, appended, cooldown_until, last_hash,
                   current_hash, idx, webhook_set, entered>>

NotifyFailed == SendFailed(ChangeMessage)

NotifyBlocked ==
    /\ pc = "Notify"
    /\ webhook_set
    /\ Spend(1)
    /\ calls' = calls \o <<NotifyCall, PostCall("no answer")>>
    /\ pc' = "Blocked"
    /\ UNCHANGED <<other, now, log_entries, appended, cooldown_until, last_hash,
                   current_hash, idx, webhook_set, entered>>

(***************************************************************************)
(* archive_all_urls, lines 139-142, and archive_url, lines 107-137.        *)
(***************************************************************************)
\* a for loop of line 141 that starts at the second target
ArchiveAllUrlsFromSecond ==
    /\ pc = "ArchiveAll"
    /\ log_entries' = Log(log_entries,
            Entry(now, <<"Archiving all configured URLs due to detected content change.">>))
    /\ appended' = appended + 1
    /\ idx' = 2
    /\ pc' = "Archive"
    /\ UNCHANGED <<other, now, cooldown_until, last_hash, current_hash, webhook_set,
                   calls, entered, events>>

ArchiveAllUrls ==
    /\ pc = "ArchiveAll"
    /\ log_entries' = Log(log_entries,
            Entry(now, <<"Archiving all configured URLs due to detected content change.">>))
    /\ appended' = appended + 1
    /\ idx' = 1
    /\ pc' = "Archive"
    /\ UNCHANGED <<other, now, cooldown_until, last_hash, current_hash, webhook_set,
                   calls, entered, events>>

ArchiveCall(url) == Call("archive_url", <<url>>, NO_TIMEOUT, "called", 0)

SaveCall(url, resp) ==
    Call("GET save", <<url>>, SAVE_TIMEOUT,
         IF resp.exc = "none" THEN "answered" ELSE resp.exc, resp.status_code)

SnapshotCall(url, answer) == Call("GET snapshot", <<url>>, SNAPSHOT_TIMEOUT, answer.kind, 0)

\* a skip that leaves the for loop of archive_all_urls and the iteration
ArchiveSkippedBreaksOut ==
    /\ pc = "Archive"
    /\ idx <= Len(URLS_TO_ARCHIVE)
    /\ in_cooldown(cooldown_until, now)
    /\ calls' = Append(calls, ArchiveCall(URLS_TO_ARCHIVE[idx]))
    /\ log_entries' = Log(log_entries, Entry(now, <<"Skipping", URLS_TO_ARCHIVE[idx]>>))
    /\ appended' = appended + 1
    /\ idx' = idx + 1
    /\ pc' = "Running"
    /\ UNCHANGED <<other, now, cooldown_until, last_hash, current_hash,
                   webhook_set, entered, events>>

\* lines 108-110
ArchiveSkipped ==
    /\ pc = "Archive"
    /\ idx <= Len(URLS_TO_ARCHIVE)
    /\ in_cooldown(cooldown_until, now)
    /\ calls' = Append(calls, ArchiveCall(URLS_TO_ARCHIVE[idx]))
    /\ log_entries' = Log(log_entries, Entry(now, <<"Skipping", URLS_TO_ARCHIVE[idx]>>))
    /\ appended' = appended + 1
    /\ idx' = idx + 1
    /\ UNCHANGED <<other, pc, now, cooldown_until, last_hash, current_hash,
                   webhook_set, entered, events>>

\* the log entries of lines 114-117 for a response that arrived
SubmitEntries(url, resp) ==
    << Entry(now, <<"Submitting URL", url>>),
       Entry(now, <<"Status code", resp.status_code>>),
       Entry(now, <<"Archive/Status URL", url>>) >>

\* a check of line 119 that takes every error status for a rate limit
TriggersCooldownAnyError(resp) ==
    \/ resp.exc = "none" /\ resp.status_code >= 400
    \/ resp.exc = "Timeout"
    \/ resp.exc = "RequestException"

\* a check of line 119 that forgets 503
TriggersCooldownOnly429(resp) ==
    \/ resp.exc = "none" /\ resp.status_code \in {429}
    \/ resp.exc = "Timeout"
    \/ resp.exc = "RequestException"

TriggersCooldown(resp) ==
    \/ resp.exc = "none" /\ resp.status_code \in {429, 503}
    \/ resp.exc = "Timeout"
    \/ resp.exc = "RequestException"

\* the time the submission takes: a Timeout is raised once the timeout passed
SaveDuration(resp) == IF resp.exc = "Timeout" THEN SAVE_TIMEOUT ELSE 0

\* lines 119-122 and 132-137
ArchiveCooldown ==
    /\ pc = "Archive"
    /\ idx <= Len(URLS_TO_ARCHIVE)
    /\ ~in_cooldown(cooldown_until, now)
    /\ Spend(1)
    /\ \E resp \in SaveResponses :
          LET url == URLS_TO_ARCHIVE[idx]
              t == now + SaveDuration(resp)
              before ==
                  IF resp.exc = "none"
                  THEN SubmitEntries(url, resp)
                        \o <<Entry(t, <<"Rate limited or service unavailable for", url>>)>>
                  ELSE IF resp.exc = "Timeout"
                  THEN <<Entry(now, <<"Submitting URL", url>>),
                         Entry(t, <<"Timeout occurred.">>)>>
                  ELSE <<Entry(now, <<"Submitting URL", url>>),
                         Entry(t, <<"Request error">>)>>
          IN  /\ TriggersCooldown(resp)
              /\ now' = t
              /\ calls' = calls \o <<ArchiveCall(url), SaveCall(url, resp)>>
              /\ cooldown_until' = enter_cooldown(t)
              /\ entered' = Append(entered, t)
              /\ log_entries' = LogAll(log_entries, before \o <<CooldownEntry(t)>>)
              /\ appended' = appended + Len(before) + 1
    /\ idx' = idx + 1
    /\ UNCHANGED <<other, pc, last_hash, current_hash, webhook_set>>

\* is_recent_snapshot, lines 92-105: (recent, snapshot_url, entries logged)
is_recent_snapshot(url, answer, t) ==
    IF answer.kind = "error"
    THEN [recent |-> FALSE, snapshot_url |-> <<>>,
          logged |-> <<Entry(t, <<"Failed to check snapshot recency">>)>>]
    ELSE IF answer.kind = "absent"
    THEN [recent |-> FALSE, snapshot_url |-> <<>>, logged |-> <<>>]
    ELSE [recent |-> answer.age <= MAX_AGE_SECONDS, snapshot_url |-> <<"snapshot of", url>>,
          logged |-> <<>>]

\* lines 124-131
ArchiveChecked ==
    /\ pc = "Archive"
    /\ idx <= Len(URLS_TO_ARCHIVE)
    /\ ~in_cooldown(cooldown_until, now)
    /\ \E resp \in SaveResponses, answer \in SnapshotAnswers :
          LET url == URLS_TO_ARCHIVE[idx]
              t == now + SNAPSHOT_WAIT
              snap == is_recent_snapshot(url, answer, t)
              verdict ==
                  IF snap.recent
                  THEN <<Entry(t, <<"Archived successfully and snapshot is recent">> \o snap.snapshot_url)>>
                  ELSE <<Entry(t, <<"Snapshot not recent (older than 1 hour).">>)>>
                        \o (IF snap.snapshot_url # <<>>
                            THEN <<Entry(t, <<"Last available snapshot">> \o snap.snapshot_url)>>
                            ELSE <<>>)
              entries == SubmitEntries(url, resp) \o snap.logged \o verdict
          IN  /\ ~TriggersCooldown(resp)
              /\ Spend((IF resp.status_code = 200 THEN 0 ELSE 1)
                        + (IF snap.recent THEN 0 ELSE 1))
              /\ now' = t
              /\ calls' = calls \o <<ArchiveCall(url), SaveCall(url, resp),
                                     SnapshotCall(url, answer)>>
              /\ log_entries' = LogAll(log_entries, entries)
              /\ appended' = appended + Len(entries)
    /\ idx' = idx + 1
    /\ UNCHANGED <<other, pc, cooldown_until, last_hash, current_hash, webhook_set,
                   entered>>

\* an update of last_hash that is left out when no submission was made
UpdateLastHashUnlessSkipped ==
    /\ pc = "Archive"
    /\ idx > Len(URLS_TO_ARCHIVE)
    /\ last_hash' = IF \E i \in DOMAIN calls : calls[i].op = "GET save"
                    THEN current_hash ELSE last_hash
    /\ pc' = "Running"
    /\ UNCHANGED <<other, now, log_entries, appended, cooldown_until, current_hash,
                   idx, webhook_set, calls, entered, events>>

\* line 168, once the for loop of archive_all_urls is exhausted
UpdateLastHash ==
    /\ pc = "Archive"
    /\ idx > Len(URLS_TO_ARCHIVE)
    /\ last_hash' = current_hash
    /\ pc' = "Running"
    /\ UNCHANGED <<other, now, log_entries, appended, cooldown_until, current_hash,
                   idx, webhook_set, calls, entered, events>>

(***************************************************************************)
(* The program: state at the start of the monitor thread, and its steps.   *)
(***************************************************************************)
Init ==
    /\ pc = "Initializing"
    /\ now = 0
    /\ log_entries = <<>>
    /\ cooldown_until = None
    /\ last_hash = <<>>
    /\ current_hash = <<>>
    /\ idx = 0
    /\ webhook_set \in BOOLEAN
    /\ calls = <<>>
    /\ appended = 0
    /\ entered = <<>>
    /\ events = 0
    /\ apc = [t \in Threads |-> "idle"]
    /\ lpc = "idle"
    /\ views = 0

Next ==
    \/ InitialFetchFailed
    \/ InitialFetchOk
    \/ PollFailed
    \/ PollUnchanged
    \/ PollChanged
    \/ NotifyUnset
    \/ NotifySent
    \/ NotifyFailed
    \/ NotifyBlocked
    \/ ArchiveAllUrls
    \/ ArchiveSkipped
    \/ ArchiveCooldown
    \/ ArchiveChecked
    \/ UpdateLastHash

Spec == Init /\ [][Next]_vars

(***************************************************************************)
(* The log buffer on its own: any component calls log(msg); the messages   *)
(* are numbered so that entries can be told apart.                         *)
(***************************************************************************)
LogCall ==
    /\ appended < MaxLogCalls
    /\ log_entries' = Log(log_entries, Entry(now, <<"entry", appended + 1>>))
    /\ appended' = appended + 1
    /\ UNCHANGED <<other, pc, now, cooldown_until, last_hash, current_hash, idx,
                   webhook_set, calls, entered, events>>

NextLog == LogCall

SpecLog == Init /\ [][NextLog]_vars

(***************************************************************************)
(* Properties.                                                             *)
(***************************************************************************)
\* the calls a step adds to those of the current iteration
NewCalls == SubSeq(calls', Len(calls) + 1, Len(calls'))

\* archive_url is about to be invoked for URLS_TO_ARCHIVE[idx]
AtArchiveUrl == pc = "Archive" /\ idx <= Len(URLS_TO_ARCHIVE)

\* the step is one invocation of archive_url that only logs the skip entry
SkipsTarget ==
    /\ calls' = Append(calls, ArchiveCall(URLS_TO_ARCHIVE[idx]))
    /\ \A i \in DOMAIN NewCalls : NewCalls[i].op \notin HttpOps
    /\ appended' = appended + 1
    /\ Last(log_entries').msg[1] = "Skipping"
    /\ Last(log_entries').msg[2] = URLS_TO_ARCHIVE[idx]
    /\ idx' = idx + 1

\* C1: whenever the gate is Cooling (cooldown_until is set and now is before
\* it) when archive_url is invoked, the invocation makes no outbound call,
\* logs exactly one skip entry and leaves cooldown_until unchanged.
C1_CoolingSkipsSubmission ==
    [][ (AtArchiveUrl /\ cooldown_until # None /\ now < cooldown_until)
          => (SkipsTarget /\ cooldown_until' = cooldown_until) ]_vars

C1_Witness ==
    /\ pc = "Archive"
    /\ idx > 1
    /\ cooldown_until # None /\ now < cooldown_until
    /\ Last(calls) = ArchiveCall(URLS_TO_ARCHIVE[idx - 1])
    /\ Last(log_entries).msg[1] = "Skipping"

\* C2 as stated: for every time t0 at which enter_cooldown ran and every later
\* time, in_cooldown() is true before t0 + 1 hour and false from t0 + 1 hour on.
C2_WindowOfEveryEntry ==
    \A i \in DOMAIN entered :
        /\ now >= entered[i]
        /\ in_cooldown(cooldown_until, now) <=> now < entered[i] + COOLDOWN_SECONDS

\* C2 amended: for every time t0 at which enter_cooldown ran, in_cooldown() is
\* true at every later time before t0 + 1 hour; and it is false from
\* t0 + 1 hour on for the most recent such t0, that is until enter_cooldown
\* runs again.  Nothing clears cooldown_until: it stays the last t0 + 1 hour.
C2_WindowOfLastEntry ==
    /\ cooldown_until = None <=> entered = <<>>
    /\ entered = <<>> => ~in_cooldown(cooldown_until, now)
    /\ \A i \in DOMAIN entered :
          /\ now >= entered[i]
          /\ now < entered[i] + COOLDOWN_SECONDS => in_cooldown(cooldown_until, now)
    /\ entered # <<>> =>
          /\ cooldown_until = Last(entered) + COOLDOWN_SECONDS
          /\ now >= Last(entered) + COOLDOWN_SECONDS => ~in_cooldown(cooldown_until, now)

C2_Witness ==
    /\ entered # <<>>
    /\ now >= Last(entered) + COOLDOWN_SECONDS
    /\ ~in_cooldown(cooldown_until, now)

\* the submission of this call ended in one of the three outcomes that
\* trigger the cooldown
CooldownOutcome(c) ==
    /\ c.op = "GET save"
    /\ \/ c.result = "answered" /\ c.status_code \in {429, 503}
       \/ c.result = "Timeout"
       \/ c.result = "RequestException"

\* C3: a submission that is answered 429 or 503, times out or fails with a
\* request error sets cooldown_until to now + 1 hour, and archive_url returns
\* without the 5-second wait and without the snapshot query.
C3_FailedSubmissionEntersCooldown ==
    [][ (AtArchiveUrl /\ \E i \in DOMAIN NewCalls : CooldownOutcome(NewCalls[i]))
          => /\ cooldown_until' = now' + COOLDOWN_SECONDS
             /\ \A i \in DOMAIN NewCalls : NewCalls[i].op # "GET snapshot"
             /\ now' = now + (IF Last(NewCalls).result = "Timeout" THEN SAVE_TIMEOUT ELSE 0)
             /\ idx' = idx + 1 ]_vars

C3_Witness ==
    /\ pc = "Archive"
    /\ calls # <<>>
    /\ CooldownOutcome(Last(calls))
    /\ Last(calls).status_code = 503
    /\ cooldown_until = now + COOLDOWN_SECONDS

\* the position in URLS_TO_ARCHIVE of the target of a call
TargetOf(c) == CHOOSE i \in DOMAIN URLS_TO_ARCHIVE : <<URLS_TO_ARCHIVE[i]>> = c.arg

\* in the current run of archive_all_urls, everything after a submission that
\* triggered the cooldown is the skipping of the following targets, in order
RestOfRunSkipped ==
    \A p \in DOMAIN calls :
        CooldownOutcome(calls[p]) =>
            LET k == Len(calls) - p
                first == TargetOf(calls[p])
            IN  /\ \A q \in 1..k : calls[p + q] = ArchiveCall(URLS_TO_ARCHIVE[first + q])
                /\ \A q \in 1..k :
                      LET e == log_entries[Len(log_entries) - k + q]
                      IN  e.msg[1] = "Skipping" /\ e.msg[2] = URLS_TO_ARCHIVE[first + q]
                /\ log_entries[Len(log_entries) - k].msg[1] = "Entering cooldown until"

\* C4: once a submission has triggered the cooldown, the later targets of the
\* same archive_all_urls run, and every archive_url invoked less than one hour
\* after the trigger, make no submission: each one logs its skip entry, in the
\* configured order.
C4_NoSubmissionAfterTrigger ==
    /\ [] RestOfRunSkipped
    /\ [][ (AtArchiveUrl /\ entered # <<>> /\ now < Last(entered) + COOLDOWN_SECONDS)
             => SkipsTarget ]_vars

C4_Witness ==
    /\ pc = "Archive"
    /\ idx = Len(URLS_TO_ARCHIVE) + 1
    /\ \E p \in DOMAIN calls : CooldownOutcome(calls[p]) /\ Len(calls) >= p + 2

\* the invocations of send_discord_message and archive_url in this iteration
Invocations == SelectSeq(calls, LAMBDA c : c.op \in {"send_discord_message", "archive_url"})

\* the step is one pass of the while loop up to the comparison of the hashes
PollStep == pc = "Running" /\ now' # now

IsNotifyOfChange(c) ==
    /\ c.op = "send_discord_message"
    /\ \E j \in DOMAIN c.arg : c.arg[j] = URL_TO_MONITOR

\* C5: in an iteration whose fetch succeeds with a different digest there is
\* exactly one notify call, its message contains the monitored URL, and only
\* after it returned is archive_url invoked, once per configured target in the
\* configured order, all before last_hash is updated.
C5_NotifyThenArchiveInOrder ==
    /\ [] /\ pc = "Notify" => Invocations = <<>>
          /\ pc \in {"ArchiveAll", "Blocked"} =>
                Len(Invocations) = 1 /\ IsNotifyOfChange(Invocations[1])
          /\ pc = "Archive" =>
                /\ Len(Invocations) = idx
                /\ IsNotifyOfChange(Invocations[1])
                /\ \A i \in 1..(idx - 1) :
                      /\ Invocations[i + 1].op = "archive_url"
                      /\ Invocations[i + 1].arg = <<URLS_TO_ARCHIVE[i]>>
    /\ [][ (PollStep /\ calls'[1].result = "answered" /\ current_hash' # last_hash)
             => pc' = "Notify" /\ last_hash' = last_hash ]_vars
    /\ [][ (pc # "Initializing" /\ last_hash' # last_hash)
             => /\ pc = "Archive"
                /\ idx = Len(URLS_TO_ARCHIVE) + 1
                /\ last_hash' = current_hash ]_vars

C5_Witness ==
    /\ pc = "Running"
    /\ Len(Invocations) = Len(URLS_TO_ARCHIVE) + 1
    /\ last_hash = current_hash
    /\ last_hash # hash_content(InitialBody)

\* C6: in an iteration whose fetch succeeds with the digest equal to
\* last_hash there is no notify call and no archive_url call, and last_hash
\* and cooldown_until are unchanged.
C6_UnchangedPageDoesNothing ==
    [][ (PollStep /\ calls'[1].result = "answered" /\ current_hash' = last_hash)
          => /\ pc' = "Running"
             /\ Len(calls') = 1
             /\ calls'[1].op = "GET page"
             /\ last_hash' = last_hash
             /\ cooldown_until' = cooldown_until
             /\ log_entries' = log_entries ]_vars

C6_Witness ==
    /\ pc = "Running"
    /\ now > 0
    /\ current_hash = last_hash
    /\ Len(calls) = 1
    /\ calls[1].result = "answered"

\* C7: a failed initial fetch logs the fatal message and ends the loop;
\* after that no call is made and the loop never runs again.
C7_InitialFailureTerminates ==
    /\ [][ (pc = "Initializing" /\ calls'[1].result = "error")
             => pc' = "Terminated" ]_vars
    /\ [] (pc = "Terminated" =>
             /\ Last(log_entries).msg[1] = "Failed to get initial HTML content. Exiting monitor."
             /\ Len(calls) = 1
             /\ calls[1].op = "GET page"
             /\ calls[1].result = "error"
             /\ now = 0)
    /\ [][ pc = "Terminated" => UNCHANGED vars ]_vars

C7_Witness ==
    /\ pc = "Terminated"
    /\ Len(log_entries) = 3

\* C8: in an iteration whose fetch fails the loop stays Running with last_hash
\* unchanged, makes no notify call and no archive_url call, leaves
\* cooldown_until unchanged, and the next step from there is again a sleep of
\* one interval followed by a fetch.
C8_FailedPollIsSkipped ==
    /\ [][ (PollStep /\ calls'[1].result = "error")
             => /\ pc' = "Running"
                /\ Len(calls') = 1
                /\ last_hash' = last_hash
                /\ cooldown_until' = cooldown_until ]_vars
    /\ [][ pc = "Running"
             => /\ now' = now + CHECK_INTERVAL
                /\ calls'[1].op = "GET page" ]_vars

C8_Witness ==
    /\ pc = "Running"
    /\ Len(calls) = 1
    /\ calls[1].result = "error"
    /\ now >= 2 * CHECK_INTERVAL
    /\ Len(log_entries) >= 5

\* the number of the oldest entry the buffer should still hold
OldestKept == IF appended > MAX_LOG_ENTRIES THEN appended - MAX_LOG_ENTRIES + 1 ELSE 1

\* C9: after n log calls the buffer holds the most recent min(n, 1000)
\* entries in the order they were appended, never more than 1000: once entry
\* 1001 is appended, entry 1 is gone and entry 2 is the oldest.
C9_BufferKeepsNewest ==
    /\ Len(log_entries) <= MAX_LOG_ENTRIES
    /\ Len(log_entries) = appended - OldestKept + 1
    /\ \A i \in DOMAIN log_entries : log_entries[i].msg = <<"entry", OldestKept + i - 1>>

C9_Witness ==
    /\ appended = MAX_LOG_ENTRIES + 1
    /\ log_entries[1].msg = <<"entry", 2>>
    /\ Last(log_entries).msg = <<"entry", MAX_LOG_ENTRIES + 1>>

\* C10: every outbound HTTP call carries an explicit timeout.
C10_EveryCallCarriesTimeout ==
    \A i \in DOMAIN calls :
        calls[i].op \in HttpOps => calls[i].timeout # NO_TIMEOUT

\* the positions of the monitor thread inside the while loop
LoopPositions == {"Running", "Notify", "ArchiveAll", "Archive"}

\* the calls made by a step of the monitor thread (a poll starts a new list)
StepCalls == IF pc = "Running" THEN calls' ELSE NewCalls

\* an HTTP call that ended in an exception or in a rate-limit status
FailedCall(c) ==
    /\ c.op \in HttpOps
    /\ \/ c.result \in {"error", "Timeout", "RequestException"}
       \/ c.op = "GET save" /\ c.status_code \in {429, 503}

\* C11: once the loop runs, no outcome of an HTTP call (an exception, a
\* timeout, any status code) ends the thread: the thread stays in the loop,
\* a failed call leaves a log entry, and the thread can always take its next
\* step.  The only call that stops the thread is the webhook POST that never
\* gets any outcome at all (it has no timeout).
C11_NoOutcomeEndsTheLoop ==
    /\ [][ (pc \in LoopPositions \/ pc = "Blocked")
             => (pc' \in LoopPositions \/ pc' = "Blocked") ]_vars
    /\ [][ (pc \in LoopPositions /\ pc' = "Blocked")
             => Last(calls').op = "POST webhook" /\ Last(calls').result = "no answer" ]_vars
    /\ [][ (pc \in LoopPositions /\ \E i \in DOMAIN StepCalls : FailedCall(StepCalls[i]))
             => appended' > appended /\ pc' \in LoopPositions ]_vars
    /\ [] (pc \in {"Notify", "ArchiveAll", "Archive"} => ENABLED Next)

C11_Witness ==
    /\ pc = "Running"
    /\ \E i \in DOMAIN calls : calls[i].op = "POST webhook" /\ calls[i].result = "error"
    /\ \E i \in DOMAIN calls : calls[i].op = "GET save" /\ calls[i].result = "RequestException"
    /\ last_hash = current_hash

\* the POST calls among some calls
Posts(cs) == SelectSeq(cs, LAMBDA c : c.op = "POST webhook")

\* C12: with no webhook configured send_discord_message logs the warning and
\* makes no outbound call; a failed POST is logged and not repeated; in both
\* cases the iteration goes on to archive_all_urls, and when it is back at
\* the sleep archive_url was invoked for every target and last_hash updated.
C12_NotifyFailureIsSwallowed ==
    /\ [][ (pc = "Notify" /\ ~webhook_set)
             => /\ \A i \in DOMAIN NewCalls : NewCalls[i].op \notin HttpOps
                /\ appended' = appended + 1
                /\ Last(log_entries').msg[1] = "DISCORD_WEBHOOK_URL not set."
                /\ pc' = "ArchiveAll" ]_vars
    /\ [][ (pc = "Notify" /\ \E i \in DOMAIN NewCalls : FailedCall(NewCalls[i]))
             => /\ Len(Posts(NewCalls)) = 1
                /\ appended' = appended + 1
                /\ Last(log_entries').msg[1] = "Error sending message"
                /\ pc' = "ArchiveAll" ]_vars
    /\ [] (Len(Posts(calls)) <= 1)
    /\ [] ((pc = "Running" /\ Len(Invocations) > 0
               /\ \A i \in DOMAIN calls : calls[i].op = "POST webhook" => calls[i].result = "error")
            => /\ Len(Invocations) = Len(URLS_TO_ARCHIVE) + 1
               /\ last_hash = current_hash)
    /\ [] (pc \in {"ArchiveAll", "Archive"} => ENABLED (ArchiveAllUrls \/ ArchiveSkipped
                \/ ArchiveCooldown \/ ArchiveChecked \/ UpdateLastHash))

C12_Witness ==
    /\ pc = "Running"
    /\ Len(Posts(calls)) = 1
    /\ Posts(calls)[1].result = "error"
    /\ Len(Invocations) = Len(URLS_TO_ARCHIVE) + 1
    /\ last_hash = current_hash

(***************************************************************************)
(* archive_url, lines 107-137, run by several threads at once, one per     *)
(* target.  cooldown_lock is held inside in_cooldown() and inside          *)
(* enter_cooldown() only, so an invocation is a sequence of four steps:    *)
(* the check, the sending of the request, the arrival of its outcome, and  *)
(* the entering of the cooldown.                                           *)
(***************************************************************************)
ConcFrame ==
    UNCHANGED <<pc, last_hash, current_hash, idx, webhook_set, events, lpc, views>>

\* lines 108-110, with the lock held for the comparison
ConcCheck(t) ==
    /\ apc[t] = "check"
    /\ calls' = Append(calls, ArchiveCall(URLS_TO_ARCHIVE[t]))
    /\ IF in_cooldown(cooldown_until, now)
       THEN /\ log_entries' = Log(log_entries, Entry(now, <<"Skipping", URLS_TO_ARCHIVE[t]>>))
            /\ appended' = appended + 1
            /\ apc' = [apc EXCEPT ![t] = "done"]
       ELSE /\ UNCHANGED <<log_entries, appended>>
            /\ apc' = [apc EXCEPT ![t] = "submit"]
    /\ UNCHANGED <<now, cooldown_until, entered>>
    /\ ConcFrame

\* lines 114-115: the request leaves
ConcSubmit(t) ==
    /\ apc[t] = "submit"
    /\ log_entries' = Log(log_entries, Entry(now, <<"Submitting URL", URLS_TO_ARCHIVE[t]>>))
    /\ appended' = appended + 1
    /\ apc' = [apc EXCEPT ![t] = "waiting"]
    /\ UNCHANGED <<now, cooldown_until, entered, calls>>
    /\ ConcFrame

\* lines 115-120 and 132-136: an outcome that triggers the cooldown
ConcRejected(t) ==
    /\ apc[t] = "waiting"
    /\ \E resp \in SaveResponses :
          LET url == URLS_TO_ARCHIVE[t]
              when == now + SaveDuration(resp)
              logged ==
                  IF resp.exc = "none"
                  THEN Tail(SubmitEntries(url, resp))
                        \o <<Entry(when, <<"Rate limited or service unavailable for", url>>)>>
                  ELSE IF resp.exc = "Timeout"
                  THEN <<Entry(when, <<"Timeout occurred.">>)>>
                  ELSE <<Entry(when, <<"Request error">>)>>
          IN  /\ TriggersCooldown(resp)
              /\ now' = when
              /\ calls' = Append(calls, SaveCall(url, resp))
              /\ log_entries' = LogAll(log_entries, logged)
              /\ appended' = appended + Len(logged)
    /\ apc' = [apc EXCEPT ![t] = "enter"]
    /\ UNCHANGED <<cooldown_until, entered>>
    /\ ConcFrame

\* lines 115-131: any other outcome, the wait and the snapshot query
ConcChecked(t) ==
    /\ apc[t] = "waiting"
    /\ \E resp \in SaveResponses, answer \in SnapshotAnswers :
          LET url == URLS_TO_ARCHIVE[t]
              when == now + SNAPSHOT_WAIT
              snap == is_recent_snapshot(url, answer, when)
              verdict ==
                  IF snap.recent
                  THEN <<Entry(when, <<"Archived successfully and snapshot is recent">> \o snap.snapshot_url)>>
                  ELSE <<Entry(when, <<"Snapshot not recent (older than 1 hour).">>)>>
                        \o (IF snap.snapshot_url # <<>>
                            THEN <<Entry(when, <<"Last available snapshot">> \o snap.snapshot_url)>>
                            ELSE <<>>)
              logged == Tail(SubmitEntries(url, resp)) \o snap.logged \o verdict
          IN  /\ ~TriggersCooldown(resp)
              /\ now' = when
              /\ calls' = calls \o <<SaveCall(url, resp), SnapshotCall(url, answer)>>
              /\ log_entries' = LogAll(log_entries, logged)
              /\ appended' = appended + Len(logged)
    /\ apc' = [apc EXCEPT ![t] = "done"]
    /\ UNCHANGED <<cooldown_until, entered>>
    /\ ConcFrame

\* lines 56-60, with the lock held
ConcEnter(t) ==
    /\ apc[t] = "enter"
    /\ cooldown_until' = enter_cooldown(now)
    /\ entered' = Append(entered, now)
    /\ log_entries' = Log(log_entries, CooldownEntry(now))
    /\ appended' = appended + 1
    /\ apc' = [apc EXCEPT ![t] = "done"]
    /\ UNCHANGED <<now, calls>>
    /\ ConcFrame

\* archive_all_urls has started one archive_url per thread
InitConc ==
    /\ pc = "Archive"
    /\ now = CHECK_INTERVAL
    /\ log_entries = <<>>
    /\ cooldown_until = None
    /\ last_hash = hash_content(InitialBody)
    /\ current_hash = hash_content("body B")
    /\ idx = 1
    /\ webhook_set \in BOOLEAN
    /\ calls = <<>>
    /\ appended = 0
    /\ entered = <<>>
    /\ events = 0
    /\ apc = [t \in Threads |-> "check"]
    /\ lpc = "idle"
    /\ views = 0

NextConc ==
    \E t \in Threads :
        \/ ConcCheck(t)
        \/ ConcSubmit(t)
        \/ ConcRejected(t)
        \/ ConcChecked(t)
        \/ ConcEnter(t)

SpecConc == InitConc /\ [][NextConc]_vars

\* C13: when archive_url runs concurrently, no invocation sends its
\* submission at a moment when the gate is Cooling (another invocation
\* entered the cooldown between this one's check and its submission).
C13_NoSubmissionWhileCooling ==
    [][ \A t \in Threads :
           (apc[t] = "submit" /\ apc'[t] = "waiting")
              => ~(cooldown_until # None /\ now < cooldown_until) ]_vars

(***************************************************************************)
(* log(), lines 39-46, next to show_log, lines 177-182.  No lock is taken  *)
(* in either: the append of line 44 and the trim of lines 45-46 are two    *)
(* steps of the monitor thread, and the request thread joins the list as   *)
(* it finds it.                                                            *)
(***************************************************************************)
ViewFrame ==
    UNCHANGED <<pc, now, cooldown_until, last_hash, current_hash, idx,
                webhook_set, calls, entered, events, apc>>

\* lines 40-44
LogAppend ==
    /\ lpc = "idle"
    /\ appended < MaxLogCalls
    /\ log_entries' = Append(log_entries, Entry(now, <<"entry", appended + 1>>))
    /\ appended' = appended + 1
    /\ lpc' = "appended"
    /\ UNCHANGED views
    /\ ViewFrame

\* lines 45-46
LogTrim ==
    /\ lpc = "appended"
    /\ log_entries' =
          IF Len(log_entries) > MAX_LOG_ENTRIES THEN Tail(log_entries) ELSE log_entries
    /\ lpc' = "idle"
    /\ UNCHANGED <<appended, views>>
    /\ ViewFrame

\* the entries one response of show_log renders, line 180
Rendered == log_entries

\* lines 177-182
ShowLog ==
    /\ views < MaxViews
    /\ views' = views + 1
    /\ UNCHANGED <<log_entries, appended, lpc>>
    /\ ViewFrame

NextView == LogAppend \/ LogTrim \/ ShowLog

SpecView == Init /\ [][NextView]_vars

\* C14: in every interleaving of log() and the log viewer, a response of the
\* viewer never renders more than 1000 entries.
C14_ViewerSeesAtMostCapacity ==
    [][ views' # views => Len(Rendered) <= MAX_LOG_ENTRIES ]_vars

\* C15: cooldown_until changes only in an archive_url whose submission was
\* answered 429 or 503, timed out or failed with a request error; a
\* submission answered with another status, and a failed snapshot query
\* (logged, reported as not recent with no snapshot URL), leave it unchanged.
C15_OnlyFailedSubmissionsChangeGate ==
    /\ [][ cooldown_until' # cooldown_until
             => AtArchiveUrl /\ \E i \in DOMAIN NewCalls : CooldownOutcome(NewCalls[i]) ]_vars
    /\ [][ (AtArchiveUrl /\ \E i \in DOMAIN NewCalls :
                               NewCalls[i].op = "GET save" /\ ~CooldownOutcome(NewCalls[i]))
             => cooldown_until' = cooldown_until /\ entered' = entered ]_vars
    /\ [][ (AtArchiveUrl /\ \E i \in DOMAIN NewCalls :
                               NewCalls[i].op = "GET snapshot" /\ NewCalls[i].result = "error")
             => (cooldown_until' = cooldown_until) /\
                (log_entries'[Len(log_entries') - 1].msg[1] = "Failed to check snapshot recency") /\
                (Last(log_entries').msg[1] = "Snapshot not recent (older than 1 hour).") ]_vars

C15_Witness ==
    /\ pc = "Archive"
    /\ cooldown_until = None
    /\ Len(calls) >= 2
    /\ Last(calls).op = "GET snapshot" /\ Last(calls).result = "error"
    /\ calls[Len(calls) - 1].op = "GET save" /\ calls[Len(calls) - 1].status_code = 404

\* the archive_url invocation that a call of this iteration belongs to
OwnerOf(i) ==
    LET before == {j \in 1..i : calls[j].op = "archive_url"}
    IN  IF before = {} THEN <<>>
        ELSE calls[CHOOSE j \in before : \A k \in before : k <= j].arg

\* C16: one change event at a time: from its notify call to the return of
\* its last archive_url the loop fetches nothing and notifies nothing else,
\* and every archive_url has returned before the next one starts.
C16_OneChangeEventInFlight ==
    /\ [][ PollStep
             => Invocations = <<>> \/ Len(Invocations) = Len(URLS_TO_ARCHIVE) + 1 ]_vars
    /\ [] (pc \in LoopPositions =>
             /\ calls[1].op = "GET page"
             /\ \A i \in DOMAIN calls : i > 1 => calls[i].op # "GET page"
             /\ Len(SelectSeq(calls, LAMBDA c : c.op = "send_discord_message")) <= 1)
    /\ [] (\A i \in DOMAIN calls :
             calls[i].op \in {"GET save", "GET snapshot"} => calls[i].arg = OwnerOf(i))
    /\ [][ (pc = "Notify" \/ pc = "ArchiveAll" \/ pc = "Archive")
             => \A i \in DOMAIN NewCalls :
                   (NewCalls[i].op # "GET page") /\
                   (NewCalls[i].op = "send_discord_message" => pc = "Notify") ]_vars

C16_Witness ==
    /\ pc = "Archive"
    /\ idx = Len(URLS_TO_ARCHIVE)
    /\ Last(calls).op = "GET snapshot"
    /\ Len(Invocations) = Len(URLS_TO_ARCHIVE)

(***************************************************************************)
(* send_discord_message(message) for messages of every length up to        *)
(* MaxMessageLen, called at the first detected change.  The units of a     *)
(* message are numbered so that a prefix can be told from any other slice. *)
(***************************************************************************)
Message(n) == [i \in 1..n |-> i]

InitPayload ==
    /\ pc = "Notify"
    /\ now = CHECK_INTERVAL
    /\ log_entries = << Entry(0, <<"Monitoring HTML content at", URL_TO_MONITOR>>),
                        Entry(CHECK_INTERVAL, <<"HTML content changed!">>) >>
    /\ cooldown_until = None
    /\ last_hash = hash_content(InitialBody)
    /\ current_hash = hash_content("body B")
    /\ idx = 0
    /\ webhook_set = TRUE
    /\ calls = <<Call("GET page", <<URL_TO_MONITOR>>, FETCH_TIMEOUT, "answered", 200)>>
    /\ appended = 2
    /\ entered = <<>>
    /\ events = 1
    /\ apc = [t \in Threads |-> "idle"]
    /\ lpc = "idle"
    /\ views = 0

NextPayload ==
    \E n \in 0..MaxMessageLen :
        \/ SendDelivered(Message(n))
        \/ SendFailed(Message(n))

SpecPayload == InitPayload /\ [][NextPayload]_vars

\* C17: the content of the webhook payload is the prefix of the message of
\* length min(len(message), 1900): never longer than 1900 units, and the
\* message itself when that has at most 1900 units.
C17_PayloadIsPrefix ==
    \A i \in DOMAIN calls :
        calls[i].op = "POST webhook" =>
            LET content == calls[i].arg
                message == calls[i - 1].arg
            IN  /\ calls[i - 1].op = "send_discord_message"
                /\ Len(content) <= 1900
                /\ Len(content) = (IF Len(message) < 1900 THEN Len(message) ELSE 1900)
                /\ \A j \in 1..Len(content) : content[j] = message[j]
                /\ Len(message) <= 1900 => content = message

C17_Witness ==
    /\ Len(calls) = 3
    /\ calls[3].op = "POST webhook"
    /\ Len(calls[2].arg) = 1901
    /\ Len(calls[3].arg) = 1900
    /\ calls[3].arg[1900] = 1900

\* C18: whenever the loop sleeps, last_hash is the hash of the body fetched
\* last (or still that of the initial body); it is updated at the end of
\* every change iteration, whatever archive_url did, also when every target
\* was skipped; so the archiving steps only ever run for a body whose hash
\* differs from last_hash.
C18_LastHashIsLatestFetch ==
    /\ [] (pc = "Running" =>
             \/ current_hash = <<>> /\ last_hash = hash_content(InitialBody)
             \/ last_hash = current_hash)
    /\ [][ (pc = "Archive" /\ pc' = "Running") => last_hash' = current_hash ]_vars
    /\ [] (pc \in {"Notify", "ArchiveAll", "Archive"} => current_hash # last_hash)
    /\ [][ (PollStep /\ calls'[1].result = "answered")
             => \E body \in Bodies : current_hash' = hash_content(body) ]_vars

C18_Witness ==
    /\ pc = "Running"
    /\ Len(Invocations) = Len(URLS_TO_ARCHIVE) + 1
    /\ \A i \in DOMAIN calls : calls[i].op # "GET save"
    /\ last_hash = current_hash
    /\ cooldown_until # None /\ now < cooldown_until

\* C19: in the monitor loop enter_cooldown runs only while the gate is Clear,
\* both at the check and at the moment it runs; while the gate is Cooling
\* cooldown_until is not touched, and it never decreases.
C19_CooldownEnteredOnlyWhenClear ==
    /\ [][ entered' # entered
             => (cooldown_until = None \/ now >= cooldown_until) /\
                (cooldown_until = None \/ now' >= cooldown_until) /\
                (cooldown_until' = Last(entered') + COOLDOWN_SECONDS) ]_vars
    /\ [][ (cooldown_until # None /\ now < cooldown_until)
             => cooldown_until' = cooldown_until /\ entered' = entered ]_vars
    /\ [][ cooldown_until # None => cooldown_until' >= cooldown_until ]_vars
    /\ [] (\A i \in DOMAIN entered :
             i > 1 => entered[i] >= entered[i - 1] + COOLDOWN_SECONDS)

C19_Witness ==
    /\ Len(entered) = 2
    /\ entered[2] >= entered[1] + COOLDOWN_SECONDS
    /\ cooldown_until = entered[2] + COOLDOWN_SECONDS

====
